---- MODULE Spec2Model ----
(***************************************************************************)
(* One invocation of the fraim action (src/src/fraim.py main) together     *)
(* with the gate handlers of src/src/workflows.py and the status helper of *)
(* src/src/github_utils.py.                                                *)
(*                                                                         *)
(* Strings the code inspects character by character (the approver, review  *)
(* author logins, team slugs) are sequences of one-character strings, so   *)
(* that lstrip('@'), split('/')[-1] and exact comparison are computed.     *)
(* Environment variables that the code only tests for emptiness are        *)
(* booleans (TRUE: set and non-empty).                                     *)
(***************************************************************************)
EXTENDS Integers, Sequences, FiniteSets, TLC

\* ---------------------------------------------------------------- bounds

\* Longest review list the host returns.
MaxReviews == 2
\* Largest number of results in the scan's results document.
MaxResults == 1
\* Statuses a commit collects before the action stops being run again.
MaxStatuses == 2
\* Runs in a results document; results in a document whose results differ
\* in level and location.
MaxRuns == 2
MaxFindings == 2
\* Invocations of process_sarif_file on one pull request.
MaxInvocations == 3

\* ------------------------------------------------------- program constants

\* Parameters handle_pull_request_block declares, none with a default.
BlockParams == 6
\* Positional arguments main passes to handle_pull_request_block.
BlockArgsPassed == 5

\* ------------------------------------------------------------ input sets

EventNames == {"pull_request", "pull_request_review", "push"}
Workflows == {"", "risk_flagger", "code"}
\* args.get('should-block-pull-request'): JSON true, JSON false, key absent.
ShouldBlockValues == {"True", "False", "None"}
\* GITHUB_EVENT_PATH: unset or no file; a file that does not load as an
\* object; an event without pull_request.number; an event with one.
EventFiles == {"missing", "unreadable", "no_pr", "pr"}
\* pr_number: 0 stands for None (falsy), 7 for the event's pull request.
PrNumbers == {0, 7}

Approvers ==
  { <<>>, <<"a">>, <<"A">>, <<"@", "a">>, <<"t">>, <<"@", "t">>,
    <<"o", "/", "t">>, <<"@", "o", "/", "t">> }
Logins == { <<"a">>, <<"A">>, <<"b">> }
ReviewStates == {"APPROVED", "CHANGES_REQUESTED"}
Reviews == [state : ReviewStates, login : Logins]
ReviewLists == UNION { [1..n -> Reviews] : n \in 0..MaxReviews }
MemberLists == { <<>>, << <<"a">> >>, << <<"a">>, <<"b">> >> }
\* The organization's teams: none, or one team with slug "t".
NoTeam == [exists |-> FALSE, slug |-> <<>>, members |-> <<>>]
TeamConfigs ==
  {NoTeam} \cup { [exists |-> TRUE, slug |-> <<"t">>, members |-> m] : m \in MemberLists }
\* The host call that fails in this invocation, if any.
HostFaults ==
  {"none", "list_comments", "get_pull", "team_lookup", "members",
   "list_reviews", "create_status"}

NotSpecified == <<"[not specified]">>

VARIABLES
  eventName,          \* GITHUB_EVENT_NAME
  workflow,           \* INPUT_WORKFLOW
  shouldBlockPr,      \* args.get('should-block-pull-request')
  approver,           \* args.get('approver'); <<>> when absent or empty
  argsValid,          \* WORKFLOW_ARGS parses as a JSON object
  eventFile,          \* what GITHUB_EVENT_PATH holds
  tokenPresent,       \* GH_TOKEN or GITHUB_TOKEN set
  githubSha,          \* GITHUB_SHA set
  githubBaseSha,      \* GITHUB_BASE_SHA set
  githubRepository,   \* GITHUB_REPOSITORY set
  prNumber,           \* pr_number once get_github_context returned
  pc,                 \* position of main
  markerComment,      \* host: some PR comment contains the marker phrase
  reviews,            \* host: the PR's review list
  team,               \* host: the organization's team
  hostFault,          \* host: the call that fails
  scanStarted,        \* the scan process has been started
  scanExit,           \* its exit status
  outputHasMarker,    \* its captured output contains the marker string
  resultsCount,       \* results in the results document it wrote
  statuses,           \* commit statuses created on the host, in order
  gate,               \* outcome of the gate evaluation
  approval,           \* what check_approver_approval returned
  resolved,           \* how the approver resolved during that call
  queried,            \* the host calls that call started
  sarifDoc,           \* sarif_to_comment: the results document, a sequence of runs
  title,              \* --title
  dryRun,             \* --dry-run
  comments,           \* host: the bodies of the pull request's comments, in order
  commentsBefore,     \* what they were before the first invocation
  posted,             \* invocations that created or edited a comment
  invocations,        \* invocations of process_sarif_file so far
  results,            \* what get_results returned
  commentBody,        \* what _build_comment_body returned, <<>> when not called
  annotations,        \* the annotation commands printed
  sarifPc             \* position of process_sarif_file

env ==
  <<eventName, workflow, shouldBlockPr, approver, argsValid, eventFile,
    tokenPresent, githubSha, githubBaseSha, githubRepository>>
host == <<markerComment, reviews, team, hostFault>>
scan == <<scanStarted, scanExit, outputHasMarker, resultsCount>>
main == <<env, prNumber, pc, host, scan, statuses, gate, approval, resolved, queried>>
sarif ==
  <<sarifDoc, title, dryRun, comments, commentsBefore, posted, invocations, results,
    commentBody, annotations, sarifPc>>
vars == <<main, sarif>>

Terminal == {"exit0", "exit1", "error", "done"}

\* ------------------------------------------------------------- strings

\* str.lstrip('@'): every leading '@' removed.
RECURSIVE LStripAt(_)
LStripAt(s) ==
  IF s # <<>> /\ Head(s) = "@" THEN LStripAt(Tail(s)) ELSE s

\* str.split('/')[-1]: what follows the last '/'.
RECURSIVE LastSegment(_)
LastSegment(s) ==
  IF \E i \in DOMAIN s : s[i] = "/" THEN LastSegment(Tail(s)) ELSE s

\* A plausible slip: the organization prefix is kept.
TeamNameKeepsOrg(appr) == LStripAt(appr)

\* team_name = approver.lstrip('@'); if '/' in team_name: keep the last part.
TeamName(appr) ==
  LET stripped == LStripAt(appr)
  IN IF \E i \in DOMAIN stripped : stripped[i] = "/"
       THEN LastSegment(stripped)
       ELSE stripped

\* x in list
InList(x, list) == \E i \in DOMAIN list : list[i] = x

\* ---------------------------------------------------- approver resolver

\* is_team_approver: TRUE only when get_team_by_slug finds the team; a
\* missing token (ValueError inside the try), a 404 and any other failure
\* all give FALSE.
IsTeamApprover(appr, repo, token, tm, fault) ==
  IF appr = <<>> \/ ~repo THEN FALSE
  ELSE IF ~token THEN FALSE
  ELSE IF fault = "team_lookup" THEN FALSE
  ELSE IF ~(tm.exists /\ tm.slug = TeamName(appr)) THEN FALSE
  ELSE TRUE

\* get_team_members: the member logins, [] on any failure.
GetTeamMembers(teamName, token, tm, fault) ==
  IF ~token THEN <<>>
  ELSE IF fault = "members" THEN <<>>
  ELSE IF ~(tm.exists /\ tm.slug = teamName) THEN <<>>
  ELSE tm.members

\* ----------------------------------------------------- approval checker

\* for review in reviews: APPROVED and author in team_members -> True
RECURSIVE TeamLoop(_, _)
TeamLoop(rv, members) ==
  IF rv = <<>> THEN FALSE
  ELSE IF Head(rv).state = "APPROVED" /\ InList(Head(rv).login, members) THEN TRUE
  ELSE TeamLoop(Tail(rv), members)

\* A plausible slip: any approval counts, whoever gave it.
TeamApprovalAnyApprover(rv, members, fault) ==
  fault # "list_reviews" /\ \E i \in DOMAIN rv : rv[i].state = "APPROVED"

\* The team branch after get_team_members: no members -> False; else list
\* the reviews (a failure is caught: False) and run the loop.
TeamApproval(rv, members, fault) ==
  IF members = <<>> THEN FALSE
  ELSE IF fault = "list_reviews" THEN FALSE
  ELSE TeamLoop(rv, members)

\* A plausible slip: logins compared without regard to case.
LowerChar(c) == IF c = "A" THEN "a" ELSE c
Lower(s) == [i \in DOMAIN s |-> LowerChar(s[i])]
IndividualLoopIgnoringCase(rv, appr) ==
  \E i \in DOMAIN rv : rv[i].state = "APPROVED" /\ Lower(rv[i].login) = Lower(appr)

\* for review in reviews: APPROVED and author == approver -> True
RECURSIVE IndividualLoop(_, _)
IndividualLoop(rv, appr) ==
  IF rv = <<>> THEN FALSE
  ELSE IF Head(rv).state = "APPROVED" /\ Head(rv).login = appr THEN TRUE
  ELSE IndividualLoop(Tail(rv), appr)

Answer(r, k, q) == [result |-> r, resolved |-> k, queried |-> q]

\* A plausible slip: the pull request number is not checked.
MissingInputNoPrCheck(appr, repo, pr) == appr = <<>> \/ ~repo

\* The three early returns of check_approver_approval.
MissingInput(appr, repo, pr) == appr = <<>> \/ ~repo \/ pr = 0

\* The host calls check_approver_approval has started by the time it has the
\* pull request, and those of its two branches.
PullCalls == {"get_github_client", "get_repo", "get_pull"}
LookupCalls == PullCalls \cup {"get_team_by_slug"}
ReviewCalls == LookupCalls \cup {"get_reviews"}

\* check_approver_approval: "true", "false", or "raised" when the call ends
\* with an exception; with it, how the approver resolved ("none" when
\* is_team_approver was not reached) and the host calls it started.
CheckApproverApproval(appr, repo, pr, token, rv, tm, fault) ==
  IF MissingInput(appr, repo, pr) THEN Answer("false", "none", {})
  ELSE IF ~token                                       \* get_github_client, outside the try
    THEN Answer("raised", "none", {"get_github_client"})
  ELSE IF fault = "get_pull" THEN Answer("false", "none", PullCalls)
  ELSE IF IsTeamApprover(appr, repo, token, tm, fault)
    THEN LET members == GetTeamMembers(TeamName(appr), token, tm, fault)
         IN Answer(IF TeamApproval(rv, members, fault) THEN "true" ELSE "false", "group",
                   IF members = <<>> THEN LookupCalls \cup {"get_members"}
                                     ELSE ReviewCalls \cup {"get_members"})
    ELSE IF fault = "list_reviews" THEN Answer("false", "individual", ReviewCalls)
         ELSE Answer(IF IndividualLoop(rv, appr) THEN "true" ELSE "false", "individual",
                     ReviewCalls)

\* check_security_risk_comment: "true", "false", or "raised".
CheckSecurityRiskComment(sha, repo, pr, token, marker, fault) ==
  IF ~sha \/ ~repo THEN "false"
  ELSE IF ~token THEN "raised"                          \* get_github_client, outside the try
  ELSE IF pr = 0 THEN "false"                           \* get_pull(None) fails, caught
  ELSE IF fault = "list_comments" THEN "false"
  ELSE IF marker THEN "true" ELSE "false"

\* ------------------------------------------------------- status checks

\* A plausible slip: the context argument left to its default.
ContextDefault(wf) == <<"fraim-security-scan">>

\* context=f"fraim/{workflow}"
Context(wf) == <<"fraim/", wf>>

Status(state, text, who, wf) ==
  [state |-> state, text |-> text, who |-> who, context |-> Context(wf)]

\* create_status_check: the statuses the commit holds afterwards. Nothing is
\* created without a token, a repository or a commit SHA, or when a host
\* call fails; no error leaves the function.
CreateStatusCheck(cur, st, token, repo, sha, fault) ==
  IF ~token THEN cur
  ELSE IF ~repo \/ ~sha THEN cur
  ELSE IF fault = "create_status" THEN cur
  ELSE Append(cur, st)

\* ------------------------------------------------------ initial states

NoHost ==
  /\ markerComment = FALSE
  /\ reviews = <<>>
  /\ team = NoTeam
  /\ hostFault = "none"

NoScan ==
  /\ scanStarted = FALSE
  /\ scanExit = 0
  /\ outputHasMarker = FALSE
  /\ resultsCount = 0

\* sarif_to_comment is a separate program; main never runs it.
NoSarif ==
  /\ sarifDoc = <<>>
  /\ title = <<>>
  /\ dryRun = FALSE
  /\ comments = <<>>
  /\ commentsBefore = <<>>
  /\ posted = 0
  /\ invocations = 0
  /\ results = <<>>
  /\ commentBody = <<>>
  /\ annotations = <<>>
  /\ sarifPc = "idle"

\* The process as main starts: the environment and the workflow arguments
\* are whatever the runner set; nothing has been asked of the host yet.
Init ==
  /\ eventName \in EventNames
  /\ workflow \in Workflows
  /\ shouldBlockPr \in ShouldBlockValues
  /\ approver \in Approvers
  /\ argsValid \in BOOLEAN
  /\ eventFile \in EventFiles
  /\ tokenPresent \in BOOLEAN
  /\ githubSha \in BOOLEAN
  /\ githubBaseSha \in BOOLEAN
  /\ githubRepository \in BOOLEAN
  /\ prNumber = 0
  /\ pc = "start"
  /\ NoHost
  /\ NoScan
  /\ statuses = <<>>
  /\ gate = "Idle"
  /\ approval = "none"
  /\ resolved = "none"
  /\ queried = {}
  /\ NoSarif

\* ---------------------------------------------------------------- main

\* args = parse_workflow_args(): json.loads raises on anything but JSON.
ParseWorkflowArgs ==
  /\ pc = "start"
  /\ pc' = IF argsValid THEN "context" ELSE "error"
  /\ UNCHANGED <<sarif, env, prNumber, host, scan, statuses, gate, approval, resolved, queried>>

\* get_github_context(): pr_number is assigned only inside the try that
\* loads the event file, and returned unconditionally.
GetGithubContext ==
  /\ pc = "context"
  /\ IF eventFile \in {"missing", "unreadable"}
       THEN pc' = "error" /\ UNCHANGED prNumber        \* UnboundLocalError
       ELSE /\ pc' = "workflow"
            /\ prNumber' = IF eventFile = "pr" THEN 7 ELSE 0
  /\ UNCHANGED <<sarif, env, host, scan, statuses, gate, approval, resolved, queried>>

\* if not workflow: sys.exit(1)
CheckWorkflow ==
  /\ pc = "workflow"
  /\ pc' = IF workflow = "" THEN "exit1" ELSE "review"
  /\ UNCHANGED <<sarif, env, prNumber, host, scan, statuses, gate, approval, resolved, queried>>

\* should_block_pr == True and workflow == "risk_flagger"
BlockingEnabled == shouldBlockPr = "True" /\ workflow = "risk_flagger"

\* A plausible slip: the approver is used as it is, even when there is none.
ApproverTextUnchecked(appr) == appr

\* approver_text = approver if approver else '[not specified]'
ApproverText(appr) == IF appr = <<>> THEN NotSpecified ELSE appr

SuccessStatus(appr, wf) == Status("success", "approved_by", appr, wf)
FailureStatus(appr, wf) == Status("failure", "waiting_for", ApproverText(appr), wf)
ErrorStatus(wf) == Status("error", "missing_sha", <<>>, wf)

\* A plausible slip: the success branch does not end the gate, and the
\* failure status follows it.
GateStatusesNoReturn(cur, approved, appr, wf, token, repo, sha, fault) ==
  CreateStatusCheck(
    IF approved THEN CreateStatusCheck(cur, SuccessStatus(appr, wf), token, repo, sha, fault)
                ELSE cur,
    FailureStatus(appr, wf), token, repo, sha, fault)

\* The gate's status: success when approved, and nothing more; failure
\* otherwise.
GateStatuses(cur, approved, appr, wf, token, repo, sha, fault) ==
  IF approved
    THEN CreateStatusCheck(cur, SuccessStatus(appr, wf), token, repo, sha, fault)
    ELSE CreateStatusCheck(cur, FailureStatus(appr, wf), token, repo, sha, fault)

\* A plausible slip: the early exit left out, main goes on.
AfterReviewFallThrough == "global_args"

\* sys.exit(0) that ends handle_pull_request_review on a review event.
AfterReviewPc == "exit0"

\* handle_pull_request_review(args, workflow, should_block_pr,
\* github_repository, pr_number), the whole call.
HandlePullRequestReview ==
  /\ pc = "review"
  /\ IF eventName # "pull_request_review"
       THEN /\ pc' = "global_args"
            /\ UNCHANGED <<host, statuses, gate, approval, resolved, queried>>
       ELSE IF ~BlockingEnabled
         THEN /\ pc' = AfterReviewPc
              /\ gate' = "Skipped"
              /\ UNCHANGED <<host, statuses, approval, resolved, queried>>
         ELSE \E marker \in BOOLEAN, fault \in HostFaults :
           LET found == CheckSecurityRiskComment(githubSha, githubRepository, prNumber,
                                                 tokenPresent, marker, fault)
           IN /\ markerComment' = marker
              /\ hostFault' = fault
              /\ IF found = "raised"
                   THEN /\ pc' = "error"
                        /\ UNCHANGED <<reviews, team, statuses, gate, approval, resolved, queried>>
                   ELSE IF found = "false"
                     THEN /\ pc' = AfterReviewPc
                          /\ gate' = "Skipped"
                          /\ UNCHANGED <<reviews, team, statuses, approval, resolved, queried>>
                     ELSE \E rv \in ReviewLists, tm \in TeamConfigs :
                       LET called == approver # <<>>      \* approver and check_...(...)
                           ans == CheckApproverApproval(approver, githubRepository, prNumber,
                                                        tokenPresent, rv, tm, fault)
                       IN /\ reviews' = rv
                          /\ team' = tm
                          /\ approval' = IF called THEN ans.result ELSE "none"
                          /\ resolved' = IF called THEN ans.resolved ELSE "none"
                          /\ queried' = IF called THEN ans.queried ELSE {}
                          /\ IF called /\ ans.result = "raised"
                               THEN pc' = "error" /\ UNCHANGED <<statuses, gate>>
                               ELSE LET approved == called /\ ans.result = "true"
                                    IN /\ statuses' = GateStatuses(statuses, approved, approver,
                                              workflow, tokenPresent, githubRepository,
                                              githubSha, fault)
                                       /\ gate' = IF approved THEN "Passed" ELSE "Blocked"
                                       /\ pc' = AfterReviewPc
  /\ UNCHANGED <<sarif, env, prNumber, scan>>

\* add_global_args(workflow, args, github_repository): on a pull_request
\* event without both SHAs, an error status is asked for and the process
\* exits 1. add_risk_flagger_args only extends the command line.
AddGlobalArgs ==
  /\ pc = "global_args"
  /\ IF eventName = "pull_request" /\ (~githubBaseSha \/ ~githubSha)
       THEN \E fault \in {"none", "create_status"} :
              /\ hostFault' = fault
              /\ statuses' = CreateStatusCheck(statuses, ErrorStatus(workflow), tokenPresent,
                                               githubRepository, githubSha, fault)
              /\ pc' = "exit1"
       ELSE /\ pc' = "scan"
            /\ UNCHANGED <<hostFault, statuses>>
  /\ UNCHANGED <<sarif, env, prNumber, markerComment, reviews, team, scan, gate, approval, resolved, queried>>

\* A plausible slip: the exit status is not looked at.
ScanOutcomeIgnoringExit(exit) == "gate"

\* if fraim_exit_code != 0: raise Exception(...), re-raised by the handler.
ScanOutcomePc(exit) == IF exit # 0 THEN "error" ELSE "gate"

\* subprocess.run(cmd, ...): the scan runs to completion and leaves its exit
\* status, its captured output and its results document.
RunScan ==
  /\ pc = "scan"
  /\ \E exit \in {0, 1}, marker \in BOOLEAN, n \in 0..MaxResults :
       /\ scanStarted' = TRUE
       /\ scanExit' = exit
       /\ outputHasMarker' = marker
       /\ resultsCount' = n
       /\ pc' = ScanOutcomePc(exit)
  /\ UNCHANGED <<sarif, env, prNumber, host, statuses, gate, approval, resolved, queried>>

\* check_output_for_risk_findings(output_content)
CheckOutputForRiskFindings(marker) == marker

\* The rest of main after the scan. handle_pull_request_block is called with
\* BlockArgsPassed positional arguments and declares BlockParams parameters,
\* so the call raises TypeError before its body runs. With matching
\* arities the body runs (handle_pull_request_block) and main goes on to
\* count the results and return. Where the body would consult the host, the
\* host's state at the time of the call is recorded, consulted or not.
GateAndReport ==
  /\ pc = "gate"
  /\ IF eventName = "pull_request" /\ BlockingEnabled
        /\ CheckOutputForRiskFindings(outputHasMarker)
       THEN \E rv \in ReviewLists, tm \in TeamConfigs, fault \in HostFaults :
         LET ans == CheckApproverApproval(approver, githubRepository, prNumber,
                                          tokenPresent, rv, tm, fault)
         IN /\ reviews' = rv
            /\ team' = tm
            /\ hostFault' = fault
            /\ UNCHANGED markerComment
            /\ IF BlockArgsPassed # BlockParams
                 THEN /\ pc' = "error"                       \* TypeError
                      /\ UNCHANGED <<statuses, gate, approval, resolved, queried>>
                 ELSE /\ approval' = ans.result
                      /\ resolved' = ans.resolved
                      /\ queried' = ans.queried
                      /\ IF ans.result = "raised"
                           THEN pc' = "error" /\ UNCHANGED <<statuses, gate>>
                           ELSE LET approved == ans.result = "true"
                                IN /\ statuses' = GateStatuses(statuses, approved, approver,
                                          workflow, tokenPresent, githubRepository,
                                          githubSha, fault)
                                   /\ gate' = IF approved THEN "Passed" ELSE "Blocked"
                                   /\ pc' = "done"
       ELSE /\ IF BlockArgsPassed # BlockParams
                 THEN pc' = "error" /\ UNCHANGED gate        \* TypeError
                 ELSE /\ gate' = IF eventName = "pull_request" /\ BlockingEnabled
                                    THEN "Passed" ELSE "Skipped"
                      /\ pc' = "done"
            /\ UNCHANGED <<host, statuses, approval, resolved, queried>>
  /\ UNCHANGED <<sarif, env, prNumber, scan>>

Next ==
  \/ ParseWorkflowArgs
  \/ GetGithubContext
  \/ CheckWorkflow
  \/ HandlePullRequestReview
  \/ AddGlobalArgs
  \/ RunScan
  \/ GateAndReport

Spec == Init /\ [][Next]_vars

\* ------------------------------------------- the approval check alone

\* check_approver_approval called on its own with every combination of
\* approver, repository, pull request number and token.
InitApproval ==
  /\ eventName = "pull_request"
  /\ workflow = "risk_flagger"
  /\ shouldBlockPr = "True"
  /\ approver \in Approvers
  /\ argsValid = TRUE
  /\ eventFile = "pr"
  /\ tokenPresent \in BOOLEAN
  /\ githubSha = TRUE
  /\ githubBaseSha = TRUE
  /\ githubRepository \in BOOLEAN
  /\ prNumber \in PrNumbers
  /\ pc = "call"
  /\ NoHost
  /\ NoScan
  /\ statuses = <<>>
  /\ gate = "Idle"
  /\ approval = "none"
  /\ resolved = "none"
  /\ queried = {}
  /\ NoSarif

CallCheckApproverApproval ==
  /\ pc = "call"
  /\ \E rv \in ReviewLists, tm \in TeamConfigs, fault \in HostFaults :
       LET ans == CheckApproverApproval(approver, githubRepository, prNumber,
                                        tokenPresent, rv, tm, fault)
       IN /\ reviews' = rv
          /\ team' = tm
          /\ hostFault' = fault
          /\ approval' = ans.result
          /\ resolved' = ans.resolved
          /\ queried' = ans.queried
          /\ pc' = IF ans.result = "raised" THEN "raised" ELSE "returned"
  /\ UNCHANGED <<sarif, env, prNumber, markerComment, scan, statuses, gate>>

NextApproval == CallCheckApproverApproval

SpecApproval == InitApproval /\ [][NextApproval]_vars

\* ------------------------------------------ one invocation after another

\* The action configured for one workflow, run for event after event on the
\* same commit: the token, the repository and the head SHA are set, the
\* event carries the pull request number.
InitRerun ==
  /\ eventName \in {"pull_request", "pull_request_review"}
  /\ workflow \in {"risk_flagger", "code"}
  /\ shouldBlockPr = "True"
  /\ approver \in {<<>>, <<"a">>}
  /\ argsValid = TRUE
  /\ eventFile = "pr"
  /\ tokenPresent = TRUE
  /\ githubSha = TRUE
  /\ githubBaseSha \in BOOLEAN
  /\ githubRepository = TRUE
  /\ prNumber = 0
  /\ pc = "start"
  /\ NoHost
  /\ NoScan
  /\ statuses = <<>>
  /\ gate = "Idle"
  /\ approval = "none"
  /\ resolved = "none"
  /\ queried = {}
  /\ NoSarif

\* The process has ended and the runner starts it again for the next event;
\* the statuses the commit holds stay on the host.
Rerun ==
  /\ pc \in Terminal
  /\ Len(statuses) < MaxStatuses
  /\ eventName' \in {"pull_request", "pull_request_review"}
  /\ githubBaseSha' \in BOOLEAN
  /\ prNumber' = 0
  /\ pc' = "start"
  /\ markerComment' = FALSE
  /\ reviews' = <<>>
  /\ team' = NoTeam
  /\ hostFault' = "none"
  /\ scanStarted' = FALSE
  /\ scanExit' = 0
  /\ outputHasMarker' = FALSE
  /\ resultsCount' = 0
  /\ gate' = "Idle"
  /\ approval' = "none"
  /\ resolved' = "none"
  /\ queried' = {}
  /\ UNCHANGED <<sarif, workflow, shouldBlockPr, approver, argsValid, eventFile,
                 tokenPresent, githubSha, githubRepository, statuses>>

NextRerun ==
  \/ ParseWorkflowArgs
  \/ GetGithubContext
  \/ CheckWorkflow
  \/ HandlePullRequestReview
  \/ AddGlobalArgs
  \/ RunScan
  \/ GateAndReport
  \/ Rerun

SpecRerun == InitRerun /\ [][NextRerun]_vars

\* ------------------------------------------- sarif_to_comment: documents

\* A key that may be absent is a sequence of at most one element: <<>> is
\* the absent key (dict.get gives None), <<v>> the value v.

\* Rules of tool.driver.rules. R1b is "r1" as another run defines it.
R1 == [name |-> <<"r1">>, help |-> <<"h1">>]
R1b == [name |-> <<"r1">>, help |-> <<"h1b">>]
R2 == [name |-> <<"r2">>, help |-> <<>>]
Unnamed == [name |-> <<>>, help |-> <<"h0">>]
EmptyNamed == [name |-> <<"">>, help |-> <<"h0">>]
RuleTables ==
  { <<>>, <<R1>>, <<R2>>, <<R1b, R2>>, <<R1, R1b>>, <<Unnamed, EmptyNamed>> }

\* One element of a run's results.
ResultData(rn, lv, uri, line, col) ==
  [ruleName |-> rn, level |-> lv, uri |-> uri, startLine |-> line, startColumn |-> col,
   message |-> "m"]

\* result_data.get('ruleName'): absent, empty, and two names.
RuleRefs == { <<>>, <<"">>, <<"r1">>, <<"r2">> }
\* result_data.get('level'): absent, the four levels the code names, one in
\* capitals and one it does not name.
Levels ==
  { <<>>, <<"error">>, <<"warning">>, <<"note">>, <<"info">>, <<"ERROR">>, <<"none">> }
\* The primary location: uri, startLine and startColumn, each absent or
\* present (no location at all is all three absent); an empty uri, line 0
\* and column 0 are present but falsy.
Locations ==
  { [uri |-> <<>>, startLine |-> <<>>, startColumn |-> <<>>],
    [uri |-> <<"a.py">>, startLine |-> <<3>>, startColumn |-> <<>>],
    [uri |-> <<"a.py">>, startLine |-> <<3>>, startColumn |-> <<5>>],
    [uri |-> <<"a.py">>, startLine |-> <<3>>, startColumn |-> <<0>>],
    [uri |-> <<"a.py">>, startLine |-> <<>>, startColumn |-> <<5>>],
    [uri |-> <<>>, startLine |-> <<3>>, startColumn |-> <<>>],
    [uri |-> <<"a.py">>, startLine |-> <<0>>, startColumn |-> <<>>],
    [uri |-> <<"">>, startLine |-> <<3>>, startColumn |-> <<>>] }

Run(tool, rules, rs) == [tool |-> tool, rules |-> rules, results |-> rs]

\* Documents that differ in their rule tables and rule references.
RuleResults == { ResultData(rn, <<"error">>, <<"a.py">>, <<3>>, <<>>) : rn \in RuleRefs }
RuleResultLists ==
  { <<>> } \cup { <<r>> : r \in RuleResults }
    \cup { << ResultData(<<"r1">>, <<"error">>, <<"a.py">>, <<3>>, <<>>),
              ResultData(<<"r2">>, <<"error">>, <<"a.py">>, <<3>>, <<>>) >> }
RuleRuns == { Run(<<"fraim">>, t, rs) : t \in RuleTables, rs \in RuleResultLists }
RuleDocuments == UNION { [1..n -> RuleRuns] : n \in 0..MaxRuns }

\* Documents of one run that differ in the levels and locations of results.
LocatedResults ==
  { ResultData(<<"r1">>, lv, <<"a.py">>, <<3>>, <<>>) : lv \in Levels }
    \cup { ResultData(<<"r1">>, <<"error">>, l.uri, l.startLine, l.startColumn) :
             l \in Locations }
LocatedDocuments ==
  { << Run(<<"fraim">>, <<R1>>, rs) >> :
      rs \in UNION { [1..n -> LocatedResults] : n \in 0..MaxFindings } }

\* ----------------------------------------------- sarif_to_comment: parser

TruthyStr(opt) == opt # <<>> /\ opt[1] # ""
TruthyInt(opt) == opt # <<>> /\ opt[1] # 0

\* rules_map.get(rule_name) if rule_name else None, where rules_map holds the
\* run's rules that have a name, a later rule replacing an earlier one of the
\* same name: <<>> for None.
RECURSIVE RuleData(_, _)
RuleData(rules, ref) ==
  IF ~TruthyStr(ref) \/ rules = <<>> THEN <<>>
  ELSE LET last == rules[Len(rules)]
       IN IF TruthyStr(last.name) /\ last.name = ref
            THEN <<last>>
            ELSE RuleData(SubSeq(rules, 1, Len(rules) - 1), ref)

\* SarifResult(result_data, rule_data): the properties the program reads.
SarifResult(rd, ruleData) ==
  [level |-> IF rd.level = <<>> THEN "warning" ELSE rd.level[1],
   message |-> rd.message,
   file_path |-> rd.uri,
   start_line |-> rd.startLine,
   start_column |-> rd.startColumn,
   rule_data |-> ruleData,
   rule_name |-> IF ruleData = <<>> THEN "unknown-rule" ELSE ruleData[1].name[1],
   help_text |-> IF ruleData = <<>> \/ ruleData[1].help = <<>> THEN "" ELSE ruleData[1].help[1]]

RECURSIVE AllRules(_)
AllRules(doc) == IF doc = <<>> THEN <<>> ELSE Head(doc).rules \o AllRules(Tail(doc))

RECURSIVE AllResultData(_)
AllResultData(doc) ==
  IF doc = <<>> THEN <<>> ELSE Head(doc).results \o AllResultData(Tail(doc))

\* A plausible slip: one rules_map for the whole document.
GetResultsSharedRules(doc) ==
  LET rds == AllResultData(doc)
  IN [i \in DOMAIN rds |-> SarifResult(rds[i], RuleData(AllRules(doc), rds[i].ruleName))]

\* get_results: run by run, each result with the rule its own run defines.
RECURSIVE GetResults(_)
GetResults(doc) ==
  IF doc = <<>> THEN <<>>
  ELSE LET run == Head(doc)
       IN [i \in DOMAIN run.results |->
             SarifResult(run.results[i], RuleData(run.rules, run.results[i].ruleName))]
          \o GetResults(Tail(doc))

\* get_tool_info: the first run's driver name.
GetToolInfo(doc) ==
  IF doc = <<>> THEN "Unknown Tool"
  ELSE IF doc[1].tool = <<>> THEN "Unknown Tool" ELSE doc[1].tool[1]

\* --------------------------------------------- sarif_to_comment: rendering

\* str.lower() on the levels above.
LowerLevel(l) == IF l = "ERROR" THEN "error" ELSE l

CountLevel(rs, ls) == Cardinality({i \in DOMAIN rs : LowerLevel(rs[i].level) \in ls})

\* severity_emoji: the glyph of the lowered level, the warning glyph for a
\* level the map does not name.
SeverityEmoji(level) ==
  LET l == LowerLevel(level)
  IN IF l = "error" THEN "error-glyph"
     ELSE IF l = "warning" THEN "warning-glyph"
     ELSE IF l \in {"note", "info"} THEN "note-glyph"
     ELSE "warning-glyph"

\* str.title() on the levels above: the level itself, capitalized.
LevelTitle(level) ==
  IF level \in {"error", "ERROR"} THEN "Error"
  ELSE IF level = "warning" THEN "Warning"
  ELSE IF level = "note" THEN "Note"
  ELSE IF level = "info" THEN "Info"
  ELSE "None"

\* One entry of the detailed findings: the glyph of its heading, its
\* Severity line, and the finding.
Detail(r) ==
  [glyph |-> SeverityEmoji(r.level), severity |-> LevelTitle(r.level), finding |-> r]

\* A comment body: its first line as characters, and what the rest of it
\* says. A body the program builds never has another line break in its first
\* line, nor has the title.
Body(first, tool, rs, noIssues) ==
  [first |-> first, tool |-> tool, total |-> Len(rs),
   errors |-> CountLevel(rs, {"error"}),
   warnings |-> CountLevel(rs, {"warning"}),
   notes |-> CountLevel(rs, {"note", "info"}),
   noIssues |-> noIssues,
   details |-> [i \in DOMAIN rs |-> Detail(rs[i])]]

\* f"## {self.title}"
TitlePrefix(ttl) == <<"#", "#", " ">> \o ttl

\* _build_comment_body
BuildCommentBody(rs, ttl, tool) == Body(TitlePrefix(ttl), tool, rs, rs = <<>>)

\* comment.body.startswith(prefix), for a prefix without a line break
StartsWith(body, prefix) ==
  /\ Len(body.first) >= Len(prefix)
  /\ SubSeq(body.first, 1, Len(prefix)) = prefix

\* A plausible slip: a new comment every time.
PostCommentAlwaysCreates(cs, body, ttl) == Append(cs, body)

\* The first comment whose body starts with the title line is edited; with
\* none, a comment is created.
PostComment(cs, body, ttl) ==
  LET hits == {i \in DOMAIN cs : StartsWith(cs[i], TitlePrefix(ttl))}
  IN IF hits = {} THEN Append(cs, body)
     ELSE [cs EXCEPT ![CHOOSE i \in hits : \A j \in hits : i <= j] = body]

\* A plausible slip: a level the table does not name is a warning.
MapLevelDefaultWarning(level) ==
  LET l == LowerLevel(level)
  IN IF l = "error" THEN "error"
     ELSE IF l \in {"note", "info"} THEN "notice"
     ELSE "warning"

\* _map_level_to_annotation
MapLevelToAnnotation(level) ==
  LET l == LowerLevel(level)
  IN IF l = "error" THEN "error"
     ELSE IF l = "warning" THEN "warning"
     ELSE "notice"

\* f"::{annotation_level} file={file_path},line={line},col={col}::{message}"
Annotation(r) ==
  [level |-> MapLevelToAnnotation(r.level),
   file |-> r.file_path[1],
   line |-> r.start_line[1],
   col |-> IF TruthyInt(r.start_column) THEN r.start_column[1] ELSE 1,
   message |-> <<r.rule_name, r.message>>]

\* create_annotations: what it prints as annotation commands. A dry run
\* prints a description instead.
RECURSIVE CreateAnnotations(_, _)
CreateAnnotations(rs, dry) ==
  IF rs = <<>> THEN <<>>
  ELSE IF ~TruthyStr(Head(rs).file_path) \/ ~TruthyInt(Head(rs).start_line)
    THEN CreateAnnotations(Tail(rs), dry)
  ELSE IF dry THEN CreateAnnotations(Tail(rs), dry)
  ELSE <<Annotation(Head(rs))>> \o CreateAnnotations(Tail(rs), dry)

\* ------------------------------------------ sarif_to_comment: the program

\* What can go wrong between get_github_client and the edit or create call.
CommentFaults == {"none", "get_github_client", "get_pull", "get_issue_comments", "write"}

\* main is not running.
NoMain ==
  /\ eventName = "push"
  /\ workflow = ""
  /\ shouldBlockPr = "None"
  /\ approver = <<>>
  /\ argsValid = TRUE
  /\ eventFile = "missing"
  /\ tokenPresent = TRUE
  /\ githubSha = TRUE
  /\ githubBaseSha = TRUE
  /\ githubRepository = TRUE
  /\ prNumber = 0
  /\ pc = "idle"
  /\ NoHost
  /\ NoScan
  /\ statuses = <<>>
  /\ gate = "Idle"
  /\ approval = "none"
  /\ resolved = "none"
  /\ queried = {}

\* process_sarif_file on an existing file: create_pr_comment, then
\* create_annotations unless the former raised.
ProcessSarifFile ==
  /\ sarifPc = "ready"
  /\ \E fault \in CommentFaults :
       LET rs == GetResults(sarifDoc)
           body == BuildCommentBody(rs, title, GetToolInfo(sarifDoc))
           posts == rs # <<>> /\ ~dryRun
           raises == posts /\ fault # "none"
       IN /\ results' = rs
          /\ commentBody' = IF rs = <<>> THEN <<>> ELSE <<body>>
          /\ comments' = IF posts /\ ~raises THEN PostComment(comments, body, title)
                                             ELSE comments
          /\ posted' = IF posts /\ ~raises THEN posted + 1 ELSE posted
          /\ annotations' = IF raises THEN <<>> ELSE CreateAnnotations(rs, dryRun)
          /\ sarifPc' = IF raises THEN "raised" ELSE "done"
  /\ invocations' = invocations + 1
  /\ UNCHANGED <<main, sarifDoc, title, dryRun, commentsBefore>>

\* One invocation on a document drawn from a wide set.
InitSarif ==
  /\ NoMain
  /\ sarifDoc \in RuleDocuments \cup LocatedDocuments
  /\ title = <<"S">>
  /\ dryRun \in BOOLEAN
  /\ comments = <<>>
  /\ commentsBefore = <<>>
  /\ posted = 0
  /\ invocations = 0
  /\ results = <<>>
  /\ commentBody = <<>>
  /\ annotations = <<>>
  /\ sarifPc = "ready"

NextSarif == ProcessSarifFile

SpecSarif == InitSarif /\ [][NextSarif]_vars

\* ------------------------------ sarif_to_comment: run after run on one PR

Titles == { <<"S">>, <<"S", "x">> }

\* No runs; a run without results; a run with one result; a run of an
\* unnamed tool with two.
CommentDocuments ==
  { <<>>,
    << Run(<<"fraim">>, <<R1>>, <<>>) >>,
    << Run(<<"fraim">>, <<R1>>, << ResultData(<<"r1">>, <<"error">>, <<"a.py">>, <<3>>, <<>>) >>) >>,
    << Run(<<>>, <<>>, << ResultData(<<>>, <<>>, <<>>, <<>>, <<>>),
                         ResultData(<<>>, <<"note">>, <<"a.py">>, <<3>>, <<5>>) >>) >> }

\* A comment somebody else wrote, with this first line.
OtherComment(first) == Body(first, "", <<>>, FALSE)

\* The pull request's comments before the program first runs: none, a
\* reviewer's, one titled "## Sx", a reviewer's and one titled "## S".
InitialComments ==
  { <<>>,
    << OtherComment(<<"L", "G", "T", "M">>) >>,
    << OtherComment(<<"#", "#", " ", "S", "x">>) >>,
    << OtherComment(<<"L", "G", "T", "M">>), OtherComment(<<"#", "#", " ", "S">>) >> }

InitComment ==
  /\ NoMain
  /\ sarifDoc \in CommentDocuments
  /\ title \in Titles
  /\ dryRun \in BOOLEAN
  /\ comments \in InitialComments
  /\ commentsBefore = comments
  /\ posted = 0
  /\ invocations = 0
  /\ results = <<>>
  /\ commentBody = <<>>
  /\ annotations = <<>>
  /\ sarifPc = "ready"

\* The program is run again on the same pull request with the same title,
\* on the results document of the next scan.
RunAgain ==
  /\ sarifPc \in {"done", "raised"}
  /\ invocations < MaxInvocations
  /\ sarifDoc' \in CommentDocuments
  /\ dryRun' \in BOOLEAN
  /\ results' = <<>>
  /\ commentBody' = <<>>
  /\ annotations' = <<>>
  /\ sarifPc' = "ready"
  /\ UNCHANGED <<main, title, comments, commentsBefore, posted, invocations>>

NextComment ==
  \/ ProcessSarifFile
  \/ RunAgain

SpecComment == InitComment /\ [][NextComment]_vars

\* ---------------------------------------------------------------- claims

ApprovedBy(rv, appr) ==
  \E i \in DOMAIN rv : rv[i].state = "APPROVED" /\ rv[i].login = appr

ApprovedByOneOf(rv, members) ==
  \E i \in DOMAIN rv :
    rv[i].state = "APPROVED" /\ \E j \in DOMAIN members : members[j] = rv[i].login

\* C1: on a pull_request event with blocking enabled for risk_flagger, a scan
\* that exited 0 and the marker in its output, the finished invocation has
\* evaluated check_approver_approval and created exactly one status: success
\* if it returned true, failure otherwise.
C1_PullRequestGateEmitsStatus ==
  ( /\ pc \in Terminal
    /\ eventName = "pull_request"
    /\ BlockingEnabled
    /\ scanStarted /\ scanExit = 0 /\ outputHasMarker
    /\ tokenPresent /\ githubRepository /\ githubSha
    /\ hostFault # "create_status" )
  => /\ approval \in {"true", "false"}
     /\ Len(statuses) = 1
     /\ statuses[1].state = IF approval = "true" THEN "success" ELSE "failure"

\* C2: on a pull_request_review event with blocking enabled for
\* risk_flagger and a marker comment on the pull request (the host
\* reachable: token, commit, repository and pull request known, the comment
\* listing and the status creation answered), the finished invocation has
\* created exactly one status: success naming the approver if
\* check_approver_approval returned true, otherwise failure naming the
\* approver, or the placeholder when none is configured; without an approver
\* it is always failure.
C2_ReviewGateEmitsStatus ==
  ( /\ pc \in Terminal
    /\ eventName = "pull_request_review"
    /\ BlockingEnabled
    /\ markerComment
    /\ tokenPresent /\ githubSha /\ githubRepository /\ prNumber # 0
    /\ hostFault \notin {"list_comments", "create_status"} )
  => /\ Len(statuses) = 1
     /\ statuses[1].context = <<"fraim/", workflow>>
     /\ IF approval = "true"
          THEN /\ statuses[1].state = "success"
               /\ statuses[1].text = "approved_by"
               /\ statuses[1].who = approver
          ELSE /\ statuses[1].state = "failure"
               /\ statuses[1].text = "waiting_for"
               /\ statuses[1].who = IF approver = <<>> THEN NotSpecified ELSE approver
     /\ (approver = <<>> => statuses[1].state = "failure")

C2_Witness ==
  /\ pc = "exit0"
  /\ eventName = "pull_request_review"
  /\ markerComment
  /\ approval = "true"
  /\ Len(statuses) = 1
  /\ statuses[1].state = "success"

\* C3: an invocation on a pull_request_review event never starts the scan
\* and never gets past the review handler; once the gate has an outcome the
\* process has exited with status 0.
C3_ReviewEventNeverScans ==
  eventName = "pull_request_review"
  => /\ ~scanStarted
     /\ pc \in {"start", "context", "workflow", "review", "exit0", "exit1", "error"}
     /\ (gate # "Idle" => pc = "exit0")

C3_Witness ==
  /\ eventName = "pull_request_review"
  /\ pc = "exit0"
  /\ gate = "Blocked"
  /\ ~scanStarted

\* C4: on a pull_request_review event (arguments parsed, workflow given,
\* event file read), if blocking is off, or the workflow is not
\* risk_flagger, or the pull request has no marker comment, the finished
\* invocation has gate Skipped, no status, and exit status 0.
C4_ReviewGateSkipped ==
  ( /\ pc \in Terminal
    /\ eventName = "pull_request_review"
    /\ argsValid /\ workflow # "" /\ eventFile \in {"no_pr", "pr"}
    /\ (~BlockingEnabled \/ ~markerComment) )
  => /\ pc = "exit0"
     /\ gate = "Skipped"
     /\ statuses = <<>>

\* C5: on a pull_request event with blocking enabled for risk_flagger, a
\* scan that exited 0, no marker in its output and an empty results
\* document, the finished invocation has gate Passed and no status.
C5_NoFindingsPassesSilently ==
  ( /\ pc \in Terminal
    /\ eventName = "pull_request"
    /\ BlockingEnabled
    /\ scanStarted /\ scanExit = 0 /\ ~outputHasMarker /\ resultsCount = 0
    /\ tokenPresent /\ githubRepository /\ githubSha )
  => /\ gate = "Passed"
     /\ statuses = <<>>

\* C6: after a scan that exited non-zero the invocation has ended with an
\* error, the gate was not evaluated, check_approver_approval was not
\* called and no success or failure status exists.
C6_ScanFailureIsFatal ==
  (scanStarted /\ scanExit # 0)
  => /\ pc = "error"
     /\ gate = "Idle"
     /\ approval = "none"
     /\ \A i \in DOMAIN statuses : statuses[i].state \notin {"success", "failure"}

C6_Witness ==
  /\ scanStarted /\ scanExit # 0
  /\ eventName = "pull_request"
  /\ BlockingEnabled
  /\ outputHasMarker
  /\ pc = "error"

\* C7: on a pull_request event with the base or the head SHA missing
\* (arguments parsed, workflow given, event file read, token and repository
\* set, the host answering), the finished invocation has created the error
\* status, exited 1 and never started the scan.
C7_MissingShaErrorStatus ==
  ( /\ pc \in Terminal
    /\ eventName = "pull_request"
    /\ (~githubBaseSha \/ ~githubSha)
    /\ argsValid /\ workflow # "" /\ eventFile \in {"no_pr", "pr"}
    /\ tokenPresent /\ githubRepository /\ hostFault = "none" )
  => /\ pc = "exit1"
     /\ ~scanStarted
     /\ statuses = << ErrorStatus(workflow) >>

\* C8: when the approver resolved as an individual and every host call
\* answered, check_approver_approval returned true exactly if some review
\* is APPROVED with an author login equal to the approver string.
C8_IndividualApprovalIff ==
  (pc = "returned" /\ resolved = "individual" /\ hostFault = "none")
  => (approval = "true" <=> ApprovedBy(reviews, approver))

C8_Witness ==
  /\ pc = "returned"
  /\ resolved = "individual"
  /\ hostFault = "none"
  /\ approval = "true"
  /\ Len(reviews) = 2
  /\ reviews[1].login = approver /\ reviews[1].state = "APPROVED"
  /\ reviews[2].login = approver /\ reviews[2].state = "CHANGES_REQUESTED"

\* C9: when the approver resolved as a group and the member list came back
\* empty (the team has no members, or the member lookup failed),
\* check_approver_approval returned false whatever the reviews are.
C9_EmptyGroupNeverApproved ==
  ( /\ pc \in {"returned", "raised"}
    /\ resolved = "group"
    /\ (team.members = <<>> \/ hostFault = "members") )
  => approval = "false"

C9_Witness ==
  /\ pc = "returned"
  /\ resolved = "group"
  /\ hostFault = "members"
  /\ team.members # <<>>
  /\ ApprovedByOneOf(reviews, team.members)
  /\ approval = "false"

\* C10: on a pull_request event with blocking enabled for risk_flagger, a
\* scan that exited 0 with the marker in its output, and an approver naming
\* an existing team with members (the host answering every call), the
\* finished invocation has created the success status naming the approver
\* exactly if some APPROVED review is by a member, and the failure status
\* otherwise.
C10_GroupApprovalGate ==
  ( /\ pc \in Terminal
    /\ eventName = "pull_request"
    /\ BlockingEnabled
    /\ scanStarted /\ scanExit = 0 /\ outputHasMarker
    /\ tokenPresent /\ githubRepository /\ githubSha /\ prNumber # 0
    /\ hostFault = "none"
    /\ approver # <<>>
    /\ team.exists /\ team.slug = TeamName(approver) /\ team.members # <<>> )
  => /\ Len(statuses) = 1
     /\ statuses[1].who = approver
     /\ statuses[1].state =
          IF ApprovedByOneOf(reviews, team.members) THEN "success" ELSE "failure"

\* check_approver_approval on its own: when the approver resolved as a group
\* with members and every host call answered, it returned true exactly if
\* some APPROVED review is by a member.
GroupApprovalIff ==
  (pc = "returned" /\ resolved = "group" /\ hostFault = "none" /\ team.members # <<>>)
  => (approval = "true" <=> ApprovedByOneOf(reviews, team.members))

\* C11: check_approver_approval never ends with an exception, and returns
\* false when a host interaction it makes fails; obtaining the host client
\* is one of them (approver, repository and pull request number given).
C11_ApprovalNeverRaises ==
  (pc # "call" /\ ~MissingInput(approver, githubRepository, prNumber))
  => /\ approval # "raised"
     /\ (~tokenPresent \/ hostFault = "get_pull") => approval = "false"

\* C15: on a pull_request event with blocking enabled, a scan that exited 0
\* without the marker in its output but with at least one result in its
\* results document is gated as one with the marker: the approval check ran
\* and (the host answering every call) one status was created.
C15_ResultsDocumentGates ==
  ( /\ pc \in Terminal
    /\ eventName = "pull_request"
    /\ BlockingEnabled
    /\ scanStarted /\ scanExit = 0
    /\ ~outputHasMarker /\ resultsCount > 0
    /\ tokenPresent /\ githubRepository /\ githubSha /\ prNumber # 0
    /\ hostFault = "none" )
  => /\ gate \in {"Passed", "Blocked"}
     /\ approval \in {"true", "false"}
     /\ Len(statuses) = 1

\* C16: when the scan exited 0 on a pull_request event without blocking, or
\* on an event that is neither pull_request nor pull_request_review, the
\* invocation ends normally after reporting, with the gate Skipped, the
\* approval check not run and no status created.
C16_GateSkippedThenReport ==
  ( /\ pc \in Terminal
    /\ scanStarted /\ scanExit = 0
    /\ IF eventName = "pull_request" THEN ~BlockingEnabled
                                      ELSE eventName # "pull_request_review" )
  => /\ pc = "done"
     /\ gate = "Skipped"
     /\ approval = "none"
     /\ statuses = <<>>

\* C18: when the approver, the repository or the pull request number is
\* missing, check_approver_approval returns false without an exception and
\* without starting any host call.
C18_MissingInputNoHostQuery ==
  (pc # "call" /\ (approver = <<>> \/ ~githubRepository \/ prNumber = 0))
  => /\ pc = "returned"
     /\ approval = "false"
     /\ resolved = "none"
     /\ queried = {}

\* The pull request number alone is missing and there is no token either:
\* the client was not asked for, so nothing was raised.
C18_Witness ==
  /\ pc = "returned"
  /\ approver # <<>> /\ githubRepository /\ prNumber = 0 /\ ~tokenPresent
  /\ queried = {}

\* n is what is left of a after its leading '@'s are dropped and, when a
\* '/' remains, everything up to the last '/'.
IsNormalizedOf(n, a) ==
  \E k \in 0..Len(a) :
    /\ n = SubSeq(a, k + 1, Len(a))
    /\ \A i \in DOMAIN n : n[i] # "/"
    /\ IF \E i \in DOMAIN a : a[i] = "/"
         THEN k > 0 /\ a[k] = "/"
         ELSE /\ \A j \in 1..k : a[j] = "@"
              /\ (n # <<>> => n[1] # "@")

\* C19: in check_approver_approval the approver resolved as a group exactly
\* when the lookup of its normalized name answered and found the team; a
\* team not found or a failing lookup raised nothing and the check fell back
\* to the individual match.
C19_GroupOnlyWhenLookupSucceeds ==
  /\ pc = "raised" => ~tokenPresent
  /\ (pc = "returned" /\ resolved # "none") =>
       /\ resolved = "group" <=>
             (hostFault # "team_lookup" /\ team.exists /\ IsNormalizedOf(team.slug, approver))
       /\ (resolved = "individual" /\ hostFault \in {"none", "team_lookup", "members"})
            => (approval = "true" <=> ApprovedBy(reviews, approver))

\* The lookup failed with an error other than not-found, and the approver
\* matched as an individual.
C19_Witness ==
  /\ pc = "returned"
  /\ hostFault = "team_lookup"
  /\ resolved = "individual"
  /\ approval = "true"

\* The status the host shows for a context: the latest one created with it.
HostStatus(sts, c) ==
  LET idx == {i \in DOMAIN sts : sts[i].context = c}
  IN sts[CHOOSE i \in idx : \A j \in idx : j <= i]

\* C17: every status created for a commit, by whichever invocation and with
\* whichever state, has the context 'fraim/' + workflow, so the commit shows
\* one status, and it is that of the latest evaluation that created one:
\* success after Passed, failure after Blocked, error after a missing SHA.
C17_OneContextPerWorkflow ==
  /\ \A i \in DOMAIN statuses : statuses[i].context = <<"fraim/", workflow>>
  /\ Cardinality({statuses[i].context : i \in DOMAIN statuses}) <= 1
  /\ (pc = "exit0" /\ gate \in {"Passed", "Blocked"} /\ hostFault # "create_status")
       => /\ statuses # <<>>
          /\ HostStatus(statuses, <<"fraim/", workflow>>).state =
               IF gate = "Passed" THEN "success" ELSE "failure"
  /\ (pc = "exit1" /\ eventName = "pull_request" /\ ~githubBaseSha
                     /\ hostFault # "create_status")
       => /\ statuses # <<>>
          /\ HostStatus(statuses, <<"fraim/", workflow>>).state = "error"

\* Several evaluations for one commit: an earlier error or failure status,
\* and the success of the latest one, which the host now shows.
C17_Witness ==
  /\ pc = "exit0"
  /\ Len(statuses) >= 2
  /\ statuses[1].state # "success"
  /\ statuses[Len(statuses)].state = "success"
  /\ HostStatus(statuses, <<"fraim/", workflow>>).state = "success"

\* Results in the runs before run a.
RECURSIVE ResultsBefore(_, _)
ResultsBefore(doc, a) ==
  IF a <= 1 THEN 0 ELSE Len(doc[a - 1].results) + ResultsBefore(doc, a - 1)

\* C20: get_results returns the results of all runs in order, each with the
\* metadata of a rule of its own run that has the name it refers to; a
\* result with no reference, an empty one, or one that no rule of its own
\* run has (whatever the other runs define) has empty metadata, and the
\* call does not fail.
C20_RulesResolvedPerRun ==
  sarifPc \in {"done", "raised"} =>
    /\ Len(results) = ResultsBefore(sarifDoc, Len(sarifDoc) + 1)
    /\ \A a \in DOMAIN sarifDoc : \A j \in DOMAIN sarifDoc[a].results :
         LET ref == sarifDoc[a].results[j].ruleName
             own == {k \in DOMAIN sarifDoc[a].rules :
                       ref \notin {<<>>, <<"">>} /\ sarifDoc[a].rules[k].name = ref}
             got == results[ResultsBefore(sarifDoc, a) + j]
         IN IF own = {}
              THEN got.rule_data = <<>> /\ got.rule_name = "unknown-rule"
              ELSE /\ got.rule_data # <<>>
                   /\ \E k \in own : got.rule_data[1] = sarifDoc[a].rules[k]

\* The first run's result refers to "r2", which only the second run defines.
C20_Witness ==
  /\ sarifPc = "done"
  /\ Len(sarifDoc) = 2
  /\ sarifDoc[1].rules = <<R1>>
  /\ sarifDoc[2].rules = <<R2>>
  /\ sarifDoc[1].results # <<>>
  /\ sarifDoc[1].results[1].ruleName = <<"r2">>
  /\ results[1].rule_data = <<>>

\* The annotation level the claim gives a finding's level (a level in
\* capitals counts as the level it spells).
ClaimedLevel(l) ==
  IF l \in {"error", "ERROR"} THEN "error"
  ELSE IF l = "warning" THEN "warning"
  ELSE "notice"

\* C14: outside a dry run, create_annotations prints one annotation for each
\* finding that has a file path and a start line (present, and not empty or
\* 0), in the order of the document, at the finding's path and line, with
\* level error for error, warning for warning and notice for every other
\* level, and column 1 when the start column is absent or 0; the other
\* findings give no annotation and no error, so the annotations are as many
\* as the findings that have both.
C14_OneAnnotationPerLocatedFinding ==
  (sarifPc = "done" /\ ~dryRun) =>
    LET located == {i \in DOMAIN results :
                      /\ results[i].file_path \notin {<<>>, <<"">>}
                      /\ results[i].start_line \notin {<<>>, <<0>>}}
        nth(k) == CHOOSE i \in located : Cardinality({j \in located : j < i}) = k - 1
    IN /\ Len(annotations) = Cardinality(located)
       /\ \A k \in DOMAIN annotations :
            LET r == results[nth(k)]
                a == annotations[k]
            IN /\ a.file = r.file_path[1]
               /\ a.line = r.start_line[1]
               /\ a.level = ClaimedLevel(r.level)
               /\ a.col = IF r.start_column \in {<<>>, <<0>>} THEN 1 ELSE r.start_column[1]

\* Two findings, the first without a file path: one annotation, for the
\* second, whose level the program does not name.
C14_Witness ==
  /\ sarifPc = "done" /\ ~dryRun
  /\ Len(results) = 2
  /\ results[1].file_path = <<>>
  /\ results[2].level = "none"
  /\ Len(annotations) = 1
  /\ annotations[1].level = "notice"
  /\ annotations[1].col = 1

\* The comments whose body begins with '## ' + title.
Matching(cs, ttl) == {i \in DOMAIN cs : StartsWith(cs[i], <<"#", "#", " ">> \o ttl)}

\* C12: on a pull request that had no comment beginning with '## ' + title,
\* after any number of invocations with the same title there is one such
\* comment if some invocation with findings posted and none otherwise: the
\* first posting added it after the comments that were there, which are
\* unchanged, and every later posting edited it, so that it holds the body
\* of the latest posting.
C12_OneCommentPerTitle ==
  Matching(commentsBefore, title) = {} =>
    IF posted = 0
      THEN comments = commentsBefore
      ELSE /\ Len(comments) = Len(commentsBefore) + 1
           /\ SubSeq(comments, 1, Len(commentsBefore)) = commentsBefore
           /\ Matching(comments, title) = {Len(comments)}
           /\ (sarifPc = "done" /\ results # <<>> /\ ~dryRun)
                => commentBody = <<comments[Len(comments)]>>

\* Three postings on a pull request that had a reviewer's comment only.
C12_Witness ==
  /\ commentsBefore # <<>>
  /\ Matching(commentsBefore, title) = {}
  /\ posted = 3
  /\ Cardinality(Matching(comments, title)) = 1

\* C13: processing a results document with no runs or no results produces
\* the no-issues comment body and no annotation.
C13_EmptyDocumentRendersNoIssues ==
  (sarifPc = "done" /\ results = <<>>)
  => /\ commentBody = <<BuildCommentBody(<<>>, title, GetToolInfo(sarifDoc))>>
     /\ annotations = <<>>

\* C21: in the comment body a finding whose level is none of error,
\* warning, note and info (in any case) is counted among the warnings and
\* has the glyph and the Severity line of a warning, and the counts of
\* errors, warnings and notes add up to the total.
C21_UnrecognizedLevelIsWarning ==
  (sarifPc \in {"done", "raised"} /\ commentBody # <<>>) =>
    LET body == commentBody[1]
        odd == {i \in DOMAIN results :
                  results[i].level \notin {"error", "ERROR", "warning", "note", "info"}}
    IN /\ body.errors + body.warnings + body.notes = body.total
       /\ body.warnings >= Cardinality(odd)
       /\ \A i \in odd : /\ body.details[i].glyph = "warning-glyph"
                          /\ body.details[i].severity = "Warning"

\* C22: an invocation creates at most one status, on every path: never a
\* success and a failure, never a gate status after the error status of a
\* missing SHA.
C22_AtMostOneStatus ==
  /\ Len(statuses) <= 1
  /\ \A i \in DOMAIN statuses :
       /\ statuses[i].state = "error" => (pc = "exit1" /\ gate = "Idle")
       /\ statuses[i].state = "success" => gate = "Passed"
       /\ statuses[i].state = "failure" => gate = "Blocked"

\* A review event whose gate passed: the success status and no other.
C22_Witness ==
  /\ pc = "exit0"
  /\ gate = "Passed"
  /\ Len(statuses) = 1
  /\ statuses[1].state = "success"

\* C23: an invocation on an event other than pull_request_review, with
\* valid workflow arguments, a workflow, both SHAs on a pull_request event,
\* and a scan that did not fail, ends normally after the gate was evaluated.
C23_NonReviewInvocationCompletes ==
  ( /\ pc \in Terminal
    /\ eventName # "pull_request_review"
    /\ argsValid
    /\ workflow # ""
    /\ eventName = "pull_request" => (githubSha /\ githubBaseSha)
    /\ ~(scanStarted /\ scanExit # 0) )
  => /\ pc = "done"
     /\ gate \in {"Passed", "Blocked", "Skipped"}

====
